---- MODULE Spec2Model ----
(***************************************************************************)
(* Model of tbc.constructor.Constructor (the dispatch handler over a       *)
(* `transitions` Machine) and of tbc.db_adapter.DbAdapter.                 *)
(*                                                                         *)
(* Strings are sequences of tokens (<<"go", "2">> is the text "go2"), so   *)
(* that re.match, which anchors a pattern at the start of the signal, is   *)
(* modelled as what it does on metacharacter-free patterns: a prefix test. *)
(* State names are plain strings.  A callback is modelled by its name: a   *)
(* callback that runs is appended to log, a guard callback returns a       *)
(* value chosen by the environment.                                        *)
(***************************************************************************)
EXTENDS Integers, Sequences, FiniteSets, TLC

(***************************************************************************)
(* Bounds of the model.                                                    *)
(***************************************************************************)
NumUsers == 2
MaxHops == 4

Users == 1..NumUsers
Threads == {1, 2}

(***************************************************************************)
(* Constructor's reserved names (constructor.py 22-26).                    *)
(***************************************************************************)
START_STATE_NAME == "__start__"
FREE_TEXT_TRIGGER == <<"__free_text__">>
PHOTO_TRIGGER == <<"__photo_trigger__">>
LOCATION_TRIGGER == <<"__location_trigger__">>
PASSING_TRIGGER == <<"__passing_trigger__">>

\* Python's None, as the value of a state field or of self.machine.
None == "<None>"

(***************************************************************************)
(* Inputs: the texts and callback payloads users send, and the profile     *)
(* metadata telegram attaches to an update (update.effective_user).  The   *)
(* row left by an earlier run carries Ann's profile, so a stored profile   *)
(* may differ from the one the user's updates carry now.                   *)
(***************************************************************************)
Texts ==
  { <<"hello">>, <<"go">>, <<"go", "2">>, <<"zzz">>,
    <<"to_", "A">>, PHOTO_TRIGGER }

\* User 1 sends every kind of update; the other users send the text
\* "hello" only.
OtherTexts == { <<"hello">> }

MediaUsers == {1}

TextsOf(u) == IF u = 1 THEN Texts ELSE OtherTexts

\* Payloads of callback buttons.
CallbackData == { <<"go">> }

Ann == [first_name |-> "Ann", last_name |-> "Lee", name |-> "Ann Lee", username |-> "ann"]
Bob == [first_name |-> "Bob", last_name |-> "Ray", name |-> "Bob Ray", username |-> "bob"]

\* update.effective_user of the updates user u sends.
ProfileOf(u) == IF u = 1 THEN Ann ELSE Bob

(***************************************************************************)
(* The registration calls of the bot program, in program order.  The first *)
(* BuildLen calls are made before main() starts serving; the remaining     *)
(* calls may be made at any later time.                                    *)
(* The pattern of the transition out of "R" is the empty string, which     *)
(* re.match finds at the start of every signal (a catch-all pattern).      *)
(***************************************************************************)
StateArgs(name, on_enter, on_exit) ==
  [call |-> "add_state", name |-> name, on_enter |-> on_enter, on_exit |-> on_exit]

TransitionArgs(trigger, source, dest, conditions, unless, before, after, prepare) ==
  [call |-> "add_transition", trigger |-> trigger, source |-> source, dest |-> dest,
   conditions |-> conditions, unless |-> unless, before |-> before,
   after |-> after, prepare |-> prepare]

Script ==
  << StateArgs(START_STATE_NAME, <<>>, <<>>),
     StateArgs("start", <<"greet">>, <<"bye">>),
     StateArgs("await_photo", <<"ask_photo">>, <<"thanks">>),
     StateArgs("done", <<>>, <<>>),
     StateArgs("A", <<>>, <<>>),
     StateArgs("B", <<>>, <<>>),
     StateArgs("C", <<>>, <<>>),
     StateArgs("P", <<>>, <<>>),
     StateArgs("Q", <<>>, <<>>),
     StateArgs("R", <<>>, <<>>),
     TransitionArgs(FREE_TEXT_TRIGGER, START_STATE_NAME, "start",
                    <<"is_allowed">>, <<>>, <<>>, <<>>, <<>>),
     TransitionArgs(<<"hello">>, "start", "await_photo",
                    <<>>, <<>>, <<"bef">>, <<"aft">>, <<"prep">>),
     TransitionArgs(PHOTO_TRIGGER, "await_photo", "done",
                    <<>>, <<>>, <<>>, <<>>, <<>>),
     TransitionArgs(<<"go">>, "done", "A",
                    <<>>, <<"is_banned">>, <<>>, <<>>, <<>>),
     TransitionArgs(<<"go", "2">>, "done", "C",
                    <<>>, <<>>, <<>>, <<>>, <<>>),
     TransitionArgs(PASSING_TRIGGER, "A", "B",
                    <<>>, <<>>, <<>>, <<>>, <<>>),
     TransitionArgs(PASSING_TRIGGER, "B", "C",
                    <<>>, <<>>, <<>>, <<>>, <<>>),
     TransitionArgs(LOCATION_TRIGGER, START_STATE_NAME, "P",
                    <<>>, <<>>, <<>>, <<>>, <<>>),
     TransitionArgs(PASSING_TRIGGER, "P", "Q",
                    <<>>, <<"is_banned">>, <<>>, <<>>, <<>>),
     TransitionArgs(PASSING_TRIGGER, "Q", "R",
                    <<>>, <<>>, <<>>, <<>>, <<>>),
     TransitionArgs(PASSING_TRIGGER, "R", "C",
                    <<>>, <<>>, <<>>, <<>>, <<>>),
     TransitionArgs(<<>>, "R", "C",
                    <<>>, <<>>, <<>>, <<>>, <<>>),
     TransitionArgs(PASSING_TRIGGER, "C", "A",
                    <<>>, <<>>, <<>>, <<>>, <<>>) >>

BuildLen == 22

\* The guard callbacks of the script; each evaluation returns what the
\* environment decides.
GuardNames == {"is_allowed", "is_banned"}

VARIABLES
  states,       \* self.states: the State objects registered so far
  transitions,  \* self.transitions: the transition descriptors registered so far
  reg,          \* number of registration calls of Script made so far
  machine,      \* self.machine: None, or the Machine built on the first dispatch
  state,        \* self.state: the model attribute the Machine reads and writes
  user,         \* self.user: the User object bound by the last load
  db,           \* the user table: id -> row
  adapter,      \* the class of self.db_adapter
  pc,           \* per thread: position in Constructor.__handler
  update,       \* per thread: the update argument (user id, profile, kind)
  trigger,      \* per thread: the local variable trigger of __handler
  hop,          \* per thread: recursion depth of __handler in this dispatch
  hist          \* per thread: what the dispatch has done so far (observation only)

vars == <<states, transitions, reg, machine, state, user, db, adapter,
          pc, update, trigger, hop, hist>>

(***************************************************************************)
(* Helpers on sequences and strings.                                       *)
(***************************************************************************)
\* re.match(pattern, string) for a pattern without metacharacters: the
\* pattern must occur at the start of the string; the string may be longer.
ReMatch(pattern, string) ==
  /\ Len(pattern) <= Len(string)
  /\ \A i \in 1..Len(pattern) : pattern[i] = string[i]

\* Python truthiness of a state field: None and the empty string are falsy.
Falsy(s) == s = None \/ s = ""

(***************************************************************************)
(* transitions.Machine, as Constructor uses it.                            *)
(*   Machine(model, states, initial, transitions) copies the registered    *)
(*   states and transitions, adds the initial state when it is not among   *)
(*   them, and adds for every state d an event "to_<d>" with a transition  *)
(*   from every state to d (auto_transitions defaults to True).            *)
(***************************************************************************)
NewState(name) == [name |-> name, on_enter |-> <<>>, on_exit |-> <<>>]

\* Machine(model=self, states=self.states, initial=..., transitions=...)
MachineInit(sts, initial, trs) ==
  [built |-> TRUE,
   states |-> IF \E i \in 1..Len(sts) : sts[i].name = initial
              THEN sts ELSE Append(sts, NewState(initial)),
   transitions |-> trs]

StateNames(m) == { m.states[i].name : i \in 1..Len(m.states) }

\* Machine.get_state(name); the caller checks name \in StateNames(m).
GetState(m, name) ==
  m.states[CHOOSE i \in 1..Len(m.states) : m.states[i].name = name]

AutoTrigger(dest) == <<"to_", dest>>

AutoTransition(source, dest) ==
  [trigger |-> AutoTrigger(dest), source |-> source, dest |-> dest,
   conditions |-> <<>>, unless |-> <<>>, before |-> <<>>, after |-> <<>>,
   prepare |-> <<>>]

\* The names of the Machine's events: one per declared trigger, one per state.
Events(m) ==
  { m.transitions[i].trigger : i \in 1..Len(m.transitions) }
    \cup { AutoTrigger(d) : d \in StateNames(m) }

\* Machine.get_triggers(state): the events that have a transition from state.
GetTriggers(m, s) ==
  IF s \notin StateNames(m) THEN {}
  ELSE { m.transitions[i].trigger :
           i \in { j \in 1..Len(m.transitions) : m.transitions[j].source = s } }
         \cup { AutoTrigger(d) : d \in StateNames(m) }

RECURSIVE SelectTransitions(_, _, _, _)
\* The declared transitions of event trig from state s, in declaration order.
SelectTransitions(trs, trig, s, i) ==
  IF i > Len(trs) THEN <<>>
  ELSE IF trs[i].trigger = trig /\ trs[i].source = s
       THEN <<trs[i]>> \o SelectTransitions(trs, trig, s, i + 1)
       ELSE SelectTransitions(trs, trig, s, i + 1)

\* Event.transitions[state]: the auto transition (added with the states,
\* before the declared ones) followed by the declared transitions.
Candidates(m, trig, s) ==
  (IF \E d \in StateNames(m) : trig = AutoTrigger(d)
   THEN << AutoTransition(s, CHOOSE d \in StateNames(m) : trig = AutoTrigger(d)) >>
   ELSE <<>>)
    \o SelectTransitions(m.transitions, trig, s, 1)

RECURSIVE EvalGuards(_, _, _, _)
\* Transition._eval_conditions: the guards are checked in order and the
\* first one that fails ends the check.  guards[i] = <<callback, target>>,
\* g gives each guard callback's return value.
\* Result: <<passed, callbacks evaluated>>.
EvalGuards(guards, g, i, seen) ==
  IF i > Len(guards) THEN <<TRUE, seen>>
  ELSE IF g[guards[i][1]] = guards[i][2]
       THEN EvalGuards(guards, g, i + 1, Append(seen, guards[i][1]))
       ELSE <<FALSE, Append(seen, guards[i][1])>>

Tag(kind, names) == [i \in 1..Len(names) |-> <<kind, names[i]>>]

\* conditions must return True, unless-guards must return False.
GuardsOf(tr) ==
  [i \in 1..Len(tr.conditions) |-> <<tr.conditions[i], TRUE>>]
    \o [i \in 1..Len(tr.unless) |-> <<tr.unless[i], FALSE>>]

\* Mutant of Execute: on_exit runs before the before callbacks, and the
\* after callbacks run before on_enter.
ExecuteM(m, tr, s, g) ==
  LET ev == EvalGuards(GuardsOf(tr), g, 1, <<>>)
      l1 == Tag("prepare", tr.prepare) \o Tag("guard", ev[2])
  IN  IF ~ev[1] THEN [outcome |-> "blocked", state |-> s, log |-> l1]
      ELSE LET l2 == l1 \o Tag("on_exit", GetState(m, s).on_exit)
                        \o Tag("before", tr.before)
           IN  IF tr.dest \notin StateNames(m)
               THEN [outcome |-> "bad_state", state |-> s, log |-> l2]
               ELSE [outcome |-> "fired", state |-> tr.dest,
                     log |-> l2 \o <<<<"set_state", tr.dest>>>>
                                \o Tag("after", tr.after)
                                \o Tag("on_enter", GetState(m, tr.dest).on_enter)]

\* Transition.execute for one transition tr taken from state s:
\* prepare, guards, then before, on_exit of the source, the state change
\* (logged as <<"set_state", dest>>), on_enter of the destination, after.
\* Result: [outcome, state, log].
Execute(m, tr, s, g) ==
  LET ev == EvalGuards(GuardsOf(tr), g, 1, <<>>)
      l1 == Tag("prepare", tr.prepare) \o Tag("guard", ev[2])
  IN  IF ~ev[1] THEN [outcome |-> "blocked", state |-> s, log |-> l1]
      ELSE LET l2 == l1 \o Tag("before", tr.before)
                        \o Tag("on_exit", GetState(m, s).on_exit)
           IN  IF tr.dest \notin StateNames(m)
               THEN [outcome |-> "bad_state", state |-> s, log |-> l2]
               ELSE [outcome |-> "fired", state |-> tr.dest,
                     log |-> l2 \o <<<<"set_state", tr.dest>>>>
                                \o Tag("on_enter", GetState(m, tr.dest).on_enter)
                                \o Tag("after", tr.after)]

RECURSIVE Process(_, _, _, _, _, _)
\* Event._process: the candidates are tried in order, the first one whose
\* guards pass is executed and ends the event.
Process(m, cands, s, g, i, log) ==
  IF i > Len(cands) THEN [outcome |-> "blocked", state |-> s, log |-> log, tr |-> 0]
  ELSE LET r == Execute(m, cands[i], s, g)
       IN  IF r.outcome = "blocked"
           THEN Process(m, cands, s, g, i + 1, log \o r.log)
           ELSE [outcome |-> r.outcome, state |-> r.state,
                 log |-> log \o r.log, tr |-> i]

\* Mutant of Trigger: a transition whose guards block it still moves the
\* model to its destination.
TriggerM(m, trig, s, g) ==
  IF trig \notin Events(m)
  THEN [outcome |-> "unknown_event", state |-> s, log |-> <<>>, tr |-> 0]
  ELSE IF trig \notin GetTriggers(m, s)
  THEN [outcome |-> "machine_error", state |-> s, log |-> <<>>, tr |-> 0]
  ELSE LET r == Process(m, Candidates(m, trig, s), s, g, 1, <<>>)
       IN  IF r.outcome = "blocked"
           THEN [r EXCEPT !.state = Candidates(m, trig, s)[1].dest]
           ELSE r

\* model.trigger(name, ...): an unknown event name raises AttributeError, an
\* event without a transition from the current state raises MachineError
\* (the Machine is built without ignore_invalid_triggers).
Trigger(m, trig, s, g) ==
  IF trig \notin Events(m)
  THEN [outcome |-> "unknown_event", state |-> s, log |-> <<>>, tr |-> 0]
  ELSE IF trig \notin GetTriggers(m, s)
  THEN [outcome |-> "machine_error", state |-> s, log |-> <<>>, tr |-> 0]
  ELSE Process(m, Candidates(m, trig, s), s, g, 1, <<>>)

(***************************************************************************)
(* DbAdapter (db_adapter.py).  A row of the user table holds the state and *)
(* the profile columns; created_at, a wall-clock reading, is left out.     *)
(* Constructor takes "the original class DbAdapter or an inherited class". *)
(* get_user and commit_user open their session with self.Session(), an     *)
(* attribute DbAdapter.__init__ does not set (it sets self.session): with  *)
(* the original class both methods raise AttributeError.  An inherited     *)
(* class is one that supplies the session factory and a user_class that    *)
(* can be built without arguments (User.__init__ requires six) and leaves  *)
(* get_user and commit_user as they are, as the class docstring asks.      *)
(***************************************************************************)
AdapterClasses == {"DbAdapter", "inherited"}

\* with self.Session() as session: does the adapter have the attribute?
HasSession(a) == a # "DbAdapter"

Row(id, st, profile) ==
  [id |-> id, state |-> st, first_name |-> profile.first_name,
   last_name |-> profile.last_name, name |-> profile.name,
   username |-> profile.username]

\* DbAdapter.get_user: the stored row, or a new object filled from the
\* update's user.  The new object is expunged from the session before the
\* commit, so the table is not written; its state column is not set.
get_user(table, eff_user) ==
  IF eff_user.id \in DOMAIN table
  THEN table[eff_user.id]
  ELSE Row(eff_user.id, None, eff_user.profile)

\* Mutant of commit_user: a row that exists is not updated.
commit_userM(table, u) ==
  [i \in DOMAIN table \cup {u.id} |-> IF i \in DOMAIN table THEN table[i] ELSE u]

\* DbAdapter.commit_user: session.add + commit inserts or updates the row.
commit_user(table, u) ==
  [i \in DOMAIN table \cup {u.id} |-> IF i = u.id THEN u ELSE table[i]]

\* The state column of a user's row, None when there is no row.
Persisted(table, id) == IF id \in DOMAIN table THEN table[id].state ELSE None

(***************************************************************************)
(* Initial state: Constructor.__init__ has run; the user table is empty or *)
(* holds rows left by an earlier run of the bot.                           *)
(***************************************************************************)
NoMachine == [built |-> FALSE, states |-> <<>>, transitions |-> <<>>]

NoUser == Row(0, None, [first_name |-> "", last_name |-> "", name |-> "", username |-> ""])

NoUpdate == [id |-> 0, profile |-> [first_name |-> "", last_name |-> "",
                                    name |-> "", username |-> ""], kind |-> "none"]

SeedTables ==
  { [i \in S |-> Row(i, "A", Ann)] : S \in {{}, {1}, {2}} }

NewHist(table, id, signal) ==
  [kind |-> "none",        \* the kind of inbound event being dispatched
   event |-> signal,       \* the raw signal of the inbound event
   signal |-> signal,      \* the signal this hop resolves
   S |-> None,             \* the state this hop was bound to
   loaded |-> None,        \* user.state after the load step of the first hop
   matched |-> {},         \* matched_triggers of this hop
   outcome |-> "none",     \* what model.trigger did in this hop
   err |-> "none",         \* the exception that ended the dispatch
   fires |-> 0,            \* transitions executed in this dispatch
   saves |-> 0,            \* commit_user calls in this dispatch
   log |-> <<>>,           \* callbacks run and state changes made in this dispatch, in order
   hopLog |-> 0,           \* Len(log) when this hop began
   hopSaves |-> 0,         \* saves when this hop began
   rebound |-> FALSE,      \* the first hop found the Machine in another state
   path |-> <<>>,          \* the states the hops of this dispatch were bound to
   conc |-> FALSE,         \* another dispatch was in flight when this one began
   db0 |-> table,          \* the user table when the event arrived
   rowHop |-> Persisted(table, id)]  \* the user's stored state when this hop began

Init ==
  /\ states = <<>>
  /\ transitions = <<>>
  /\ reg = 0
  /\ machine = NoMachine
  /\ state = None
  /\ user = NoUser
  /\ db \in SeedTables
  /\ adapter \in AdapterClasses
  /\ pc = [t \in Threads |-> "idle"]
  /\ update = [t \in Threads |-> NoUpdate]
  /\ trigger = [t \in Threads |-> <<>>]
  /\ hop = [t \in Threads |-> 0]
  /\ hist = [t \in Threads |-> NewHist(<<>>, 0, <<>>)]

Idle(t) == pc[t] = "idle"

\* The dispatch of thread t has ended: it returned, or an exception left it.
Ended(t) == pc[t] \in {"done", "raised"}

Quiet == \A t \in Threads : Idle(t)

(***************************************************************************)
(* Registration (constructor.py 126-143).                                  *)
(***************************************************************************)
\* Constructor.add_state
add_state ==
  /\ Quiet
  /\ reg < Len(Script)
  /\ Script[reg + 1].call = "add_state"
  /\ states' = Append(states, [name |-> Script[reg + 1].name,
                               on_enter |-> Script[reg + 1].on_enter,
                               on_exit |-> Script[reg + 1].on_exit])
  /\ reg' = reg + 1
  /\ UNCHANGED <<transitions, machine, state, user, db, adapter, pc, update, trigger, hop, hist>>

\* Constructor.add_transition
add_transition ==
  /\ Quiet
  /\ reg < Len(Script)
  /\ Script[reg + 1].call = "add_transition"
  /\ transitions' = Append(transitions,
       [trigger |-> Script[reg + 1].trigger, source |-> Script[reg + 1].source,
        dest |-> Script[reg + 1].dest, conditions |-> Script[reg + 1].conditions,
        unless |-> Script[reg + 1].unless, before |-> Script[reg + 1].before,
        after |-> Script[reg + 1].after, prepare |-> Script[reg + 1].prepare])
  /\ reg' = reg + 1
  /\ UNCHANGED <<states, machine, state, user, db, adapter, pc, update, trigger, hop, hist>>

(***************************************************************************)
(* The telegram handlers (constructor.py 98-124): each derives the raw     *)
(* signal from the update and calls __handler.                             *)
(***************************************************************************)
Enter(t, u, profile, kind, signal) ==
  /\ reg >= BuildLen
  /\ Idle(t)
  /\ update' = [update EXCEPT ![t] = [id |-> u, profile |-> profile, kind |-> kind]]
  /\ trigger' = [trigger EXCEPT ![t] = signal]
  /\ hop' = [hop EXCEPT ![t] = 0]
  /\ pc' = [pc EXCEPT ![t] = "load"]
  /\ hist' = [hist EXCEPT ![t] =
       [NewHist(db, u, signal) EXCEPT
          !.kind = kind,
          !.conc = \E s \in Threads \ {t} : ~Idle(s) /\ ~Ended(s)]]
  /\ UNCHANGED <<states, transitions, reg, machine, state, user, db, adapter>>

\* Mutant of PhotoSignal: the photo handler passes the location trigger.
PhotoSignalM == LOCATION_TRIGGER

\* lines 109 and 116: the signal of a photo and of a location update
PhotoSignal == PHOTO_TRIGGER

LocationSignal == LOCATION_TRIGGER

\* Constructor.__msg_handler: text and command messages
msg_handler(t) ==
  \E u \in Users : \E text \in TextsOf(u) : Enter(t, u, ProfileOf(u), "message", text)

\* Constructor.__photo_handler
photo_handler(t) ==
  \E u \in MediaUsers : Enter(t, u, ProfileOf(u), "photo", PhotoSignal)

\* Constructor.__location_handler
location_handler(t) ==
  \E u \in MediaUsers : Enter(t, u, ProfileOf(u), "location", LocationSignal)

\* Constructor.__clb_handler
clb_handler(t) ==
  \E u \in MediaUsers, data \in CallbackData : Enter(t, u, ProfileOf(u), "callback", data)

(***************************************************************************)
(* Constructor.__handler (constructor.py 48-96), one action per step; pc   *)
(* is the position of the thread in the method.  A raised exception leaves *)
(* the method (and every enclosing recursive call) at once.                *)
(***************************************************************************)
Raise(t, e) ==
  /\ pc' = [pc EXCEPT ![t] = "raised"]
  /\ hist' = [hist EXCEPT ![t].err = e]

\* lines 57-62: load the user, default an empty state to the start state
LoadUser(table, eff_user) ==
  LET u == get_user(table, eff_user)
  IN  [u EXCEPT !.state = IF Falsy(u.state) THEN START_STATE_NAME ELSE u.state]

Load(t) ==
  /\ pc[t] = "load"
  /\ IF HasSession(adapter)
     THEN /\ user' = LoadUser(db, update[t])
          /\ pc' = [pc EXCEPT ![t] = "bind"]
     ELSE /\ user' = user
          /\ pc' = [pc EXCEPT ![t] = "raised"]
  /\ hist' = [hist EXCEPT
                ![t].signal = trigger[t],
                ![t].S = None,
                ![t].matched = {},
                ![t].outcome = "none",
                ![t].loaded = IF hop[t] = 0 THEN user'.state ELSE @,
                ![t].hopLog = Len(hist[t].log),
                ![t].hopSaves = hist[t].saves,
                ![t].rowHop = Persisted(db, update[t].id),
                ![t].err = IF HasSession(adapter) THEN @
                           ELSE "AttributeError: no attribute Session"]
  /\ UNCHANGED <<states, transitions, reg, machine, state, db, adapter, update, trigger, hop>>

\* Mutant of BindState: the Machine is not rebound and keeps the state
\* the previous dispatch left.
BindStateM(m, st) == state

\* lines 64-72: rebind the Machine to the user's state, or build it.
\* Machine.set_state raises ValueError for a state the Machine does not have.
BindState(m, st) == st

\* Mutant of GetMachine: the Machine is built anew in every hop.
GetMachineM(m, sts, initial, trs) == MachineInit(sts, initial, trs)

\* lines 64-72: self.machine is built when there is none, and kept otherwise.
GetMachine(m, sts, initial, trs) ==
  IF m.built THEN m ELSE MachineInit(sts, initial, trs)

Bind(t) ==
  /\ pc[t] = "bind"
  /\ IF machine.built
     THEN IF user.state \in StateNames(machine)
          THEN /\ state' = BindState(machine, user.state)
               /\ pc' = [pc EXCEPT ![t] = "resolve"]
               /\ hist' = [hist EXCEPT ![t].S = state',
                                       ![t].path = Append(@, state'),
                                       ![t].rebound = IF hop[t] = 0
                                                      THEN state # user.state ELSE @]
               /\ machine' = GetMachine(machine, states, user.state, transitions)
          ELSE /\ Raise(t, "ValueError: not a registered state")
               /\ UNCHANGED <<machine, state>>
     ELSE /\ machine' = GetMachine(machine, states, user.state, transitions)
          /\ state' = user.state
          /\ pc' = [pc EXCEPT ![t] = "resolve"]
          /\ hist' = [hist EXCEPT ![t].S = state', ![t].path = Append(@, state')]
  /\ UNCHANGED <<states, transitions, reg, user, db, adapter, update, trigger, hop>>

\* lines 74-78: the patterns outgoing from the current state that match
MatchedTriggers(m, st, signal) ==
  { p \in GetTriggers(m, st) : ReMatch(p, signal) }

\* Mutant of Ambiguous: the ambiguity test is off by one.
AmbiguousM(matched) == Cardinality(matched) > 2

\* lines 84-88: two or more matches raise ValueError
Ambiguous(matched) == Cardinality(matched) >= 2

\* Mutant of ResolveTrigger: the wrong sentinel is the fallback.
ResolveTriggerM(matched) ==
  IF matched = {} THEN PASSING_TRIGGER ELSE CHOOSE p \in matched : TRUE

\* lines 80-83: the trigger to fire for zero or one match
ResolveTrigger(matched) ==
  IF matched = {} THEN FREE_TEXT_TRIGGER ELSE CHOOSE p \in matched : TRUE

Resolve(t) ==
  /\ pc[t] = "resolve"
  /\ LET matched == MatchedTriggers(machine, state, trigger[t])
     IN  IF ~Ambiguous(matched)
         THEN /\ trigger' = [trigger EXCEPT ![t] = ResolveTrigger(matched)]
              /\ pc' = [pc EXCEPT ![t] = "fire"]
              /\ hist' = [hist EXCEPT ![t].matched = matched]
         ELSE /\ pc' = [pc EXCEPT ![t] = "raised"]
              /\ hist' = [hist EXCEPT ![t].matched = matched,
                                      ![t].err = "ValueError: more than one matched trigger"]
              /\ UNCHANGED trigger
  /\ UNCHANGED <<states, transitions, reg, machine, state, user, db, adapter, update, hop>>

\* line 90: self.machine.model.trigger(trigger, self)
Fire(t) ==
  /\ pc[t] = "fire"
  /\ \E g \in [GuardNames -> BOOLEAN] :
       LET r == Trigger(machine, trigger[t], state, g)
       IN  /\ state' = r.state
           /\ IF r.outcome \in {"fired", "blocked"}
              THEN /\ pc' = [pc EXCEPT ![t] = "save"]
                   /\ hist' = [hist EXCEPT
                        ![t].outcome = r.outcome,
                        ![t].fires = IF r.outcome = "fired" THEN @ + 1 ELSE @,
                        ![t].log = @ \o r.log]
              ELSE /\ pc' = [pc EXCEPT ![t] = "raised"]
                   /\ hist' = [hist EXCEPT
                        ![t].outcome = r.outcome,
                        ![t].log = @ \o r.log,
                        ![t].err = CASE r.outcome = "unknown_event" ->
                                          "AttributeError: do not know event"
                                     [] r.outcome = "machine_error" ->
                                          "MachineError: cannot trigger event from state"
                                     [] OTHER -> "ValueError: not a registered state"]
  /\ UNCHANGED <<states, transitions, reg, machine, user, db, adapter, update, trigger, hop>>

\* Mutant of SavedUser: line 92 forgotten, the loaded record is committed.
SavedUserM(u, st) == u

\* lines 92-93: self.user.state = self.state; commit_user(self.user).
\* A hop gets here only after get_user has opened a session, so commit_user
\* finds the session factory too.
SavedUser(u, st) == [u EXCEPT !.state = st]

Save(t) ==
  /\ pc[t] = "save"
  /\ user' = SavedUser(user, state)
  /\ db' = commit_user(db, user')
  /\ pc' = [pc EXCEPT ![t] = "chain"]
  /\ hist' = [hist EXCEPT ![t].saves = @ + 1]
  /\ UNCHANGED <<states, transitions, reg, machine, state, adapter, update, trigger, hop>>

\* Mutant of Chains: the handler never recurses.
ChainsM(m, st) == FALSE

\* line 95: does the current state expose the pass-through trigger?
Chains(m, st) == PASSING_TRIGGER \in GetTriggers(m, st)

\* lines 95-96: recurse with the pass-through trigger, or return.  Python
\* ends a recursion that gets too deep with RecursionError; MaxHops stands
\* for that depth.
Chain(t) ==
  /\ pc[t] = "chain"
  /\ IF Chains(machine, state)
     THEN IF hop[t] < MaxHops
          THEN /\ trigger' = [trigger EXCEPT ![t] = PASSING_TRIGGER]
               /\ hop' = [hop EXCEPT ![t] = @ + 1]
               /\ pc' = [pc EXCEPT ![t] = "load"]
               /\ UNCHANGED hist
          ELSE /\ Raise(t, "RecursionError")
               /\ UNCHANGED <<trigger, hop>>
     ELSE /\ pc' = [pc EXCEPT ![t] = "done"]
          /\ UNCHANGED <<trigger, hop, hist>>
  /\ UNCHANGED <<states, transitions, reg, machine, state, user, db, adapter, update>>

\* The handler's frame is left (by return or by the exception): its locals
\* are gone, the fields of self stay as they are.
Return(t) ==
  /\ Ended(t)
  /\ pc' = [pc EXCEPT ![t] = "idle"]
  /\ update' = [update EXCEPT ![t] = NoUpdate]
  /\ trigger' = [trigger EXCEPT ![t] = <<>>]
  /\ hop' = [hop EXCEPT ![t] = 0]
  /\ hist' = [hist EXCEPT ![t] = NewHist(<<>>, 0, <<>>)]
  /\ UNCHANGED <<states, transitions, reg, machine, state, user, db, adapter>>

(***************************************************************************)
(* Spec: the Updater delivers updates to the handlers one at a time (no    *)
(* handler is registered to run asynchronously), so one dispatch chain     *)
(* runs to its end before the next begins.                                 *)
(***************************************************************************)
Main == 1

Next ==
  \/ add_state
  \/ add_transition
  \/ msg_handler(Main)
  \/ photo_handler(Main)
  \/ location_handler(Main)
  \/ clb_handler(Main)
  \/ Load(Main)
  \/ Bind(Main)
  \/ Resolve(Main)
  \/ Fire(Main)
  \/ Save(Main)
  \/ Chain(Main)
  \/ Return(Main)

Spec == Init /\ [][Next]_vars

(***************************************************************************)
(* SpecConc: the same handler run by two worker threads on the one         *)
(* Constructor object with no lock, as when the handlers are dispatched    *)
(* asynchronously.  Thread t handles one text message of user t, one of    *)
(* ConcTexts; the steps of the two dispatches interleave freely;           *)
(* self.machine, self.state and self.user are shared.                      *)
(***************************************************************************)
ConcTexts == { <<"hello">>, <<"zzz">> }

Arrive(t) ==
  /\ msg_handler(t)
  /\ update'[t].id = t
  /\ trigger'[t] \in ConcTexts

Step(t) ==
  \/ Load(t)
  \/ Bind(t)
  \/ Resolve(t)
  \/ Fire(t)
  \/ Save(t)
  \/ Chain(t)

NextConc ==
  \/ add_state
  \/ add_transition
  \/ \E t \in Threads : Arrive(t)
  \/ \E t \in Threads : Step(t)

SpecConc == Init /\ [][NextConc]_vars

(***************************************************************************)
(* Vocabulary of the properties.  The patterns outgoing from a state and   *)
(* the patterns a signal matches are restated here from the registered     *)
(* transitions, independently of the operators the actions use.            *)
(***************************************************************************)
H == hist[Main]

U == update[Main].id

\* The hop of H has bound the Machine and has passed trigger resolution.
Resolved ==
  /\ pc[Main] \in {"fire", "save", "chain", "done", "raised"}
  /\ H.S # None

\* The hop has ended: its save is done, or an exception has left it.
HopEnded == pc[Main] \in {"chain", "done", "raised"} /\ H.S # None

IsPrefix(p, x) == Len(p) <= Len(x) /\ SubSeq(x, 1, Len(p)) = p

\* Destinations of the Machine's transitions from state s on pattern p.
Dests(s, p) ==
  { machine.transitions[i].dest :
      i \in { j \in 1..Len(machine.transitions) :
                /\ machine.transitions[j].source = s
                /\ machine.transitions[j].trigger = p } }
    \cup { d \in StateNames(machine) : p = <<"to_", d>> }

\* The trigger patterns outgoing from state s.
OutPatterns(s) ==
  { machine.transitions[i].trigger :
      i \in { j \in 1..Len(machine.transitions) : machine.transitions[j].source = s } }
    \cup { <<"to_", d>> : d \in StateNames(machine) }

\* The patterns outgoing from the hop's state that match the hop's signal.
Matching == { p \in OutPatterns(H.S) : IsPrefix(p, H.signal) }

\* The user's state as the dispatch sees it: a user without a row, or with
\* an empty state, is in the start state.
UserState(table, id) ==
  IF Persisted(table, id) = None THEN START_STATE_NAME ELSE Persisted(table, id)

(***************************************************************************)
(* C1.  When exactly one pattern outgoing from the hop's state S matches   *)
(* the signal X, that pattern is the trigger the hop fires; and when the   *)
(* guards let the transition run, the runtime state, the bound user and    *)
(* the user's stored row all hold, after the hop, the one destination the  *)
(* Machine declares for (S, pattern): a function of S and X alone.         *)
(***************************************************************************)
C1_UniqueMatchFires ==
  (Resolved /\ Cardinality(Matching) = 1) =>
     /\ trigger[Main] \in Matching
     /\ H.outcome \in {"none", "fired", "blocked"}
     /\ (pc[Main] = "raised" => H.err = "RecursionError")
     /\ (H.outcome = "fired" /\ pc[Main] \in {"save", "chain", "done"}) =>
           Dests(H.S, trigger[Main]) = {state}
     /\ (H.outcome = "fired" /\ pc[Main] \in {"chain", "done"}) =>
           /\ user.state = state
           /\ Persisted(db, U) = state

\* "hello" in state "start" has fired and the hop is saved.
C1_Witness ==
  /\ pc[Main] = "chain"
  /\ Cardinality(Matching) = 1
  /\ H.outcome = "fired"
  /\ H.S = "start"
  /\ H.signal = <<"hello">>
  /\ Persisted(db, U) = "await_photo"

(***************************************************************************)
(* C2.  A signal that matches two or more patterns outgoing from the       *)
(* hop's state ends the dispatch with the ambiguity error before anything  *)
(* is fired: no callback has run in the hop, no save was made in it, the   *)
(* runtime state is still the bound one, the stored row is as it was when  *)
(* the hop began, and nothing is chained.  For the inbound signal itself   *)
(* (the first hop) the stored row is as it was before the dispatch.        *)
(***************************************************************************)
C2_AmbiguityAborts ==
  (Resolved /\ Cardinality(Matching) >= 2) =>
     /\ pc[Main] = "raised"
     /\ H.err = "ValueError: more than one matched trigger"
     /\ H.outcome = "none"
     /\ Len(H.log) = H.hopLog
     /\ H.saves = H.hopSaves
     /\ state = H.S
     /\ Persisted(db, U) = H.rowHop
     /\ trigger[Main] = H.signal
     /\ hop[Main] = 0 =>
          /\ H.log = <<>>
          /\ H.saves = 0
          /\ H.fires = 0
          /\ db = H.db0

\* "go2" in state "done" matches "go" and "go2".
C2_Witness ==
  /\ pc[Main] = "raised"
  /\ hop[Main] = 0
  /\ H.S = "done"
  /\ H.signal = <<"go", "2">>
  /\ Cardinality(Matching) = 2

(***************************************************************************)
(* C3.  When no pattern outgoing from the hop's state S matches the        *)
(* signal, the resolved trigger is the free-text trigger; and when S has   *)
(* no free-text transition, the runtime state is still S and the user's    *)
(* stored row is what it was before the dispatch, whenever the dispatch    *)
(* ends.                                                                   *)
(***************************************************************************)
C3_NoMatchFreeText ==
  (Resolved /\ Matching = {}) =>
     /\ trigger[Main] = FREE_TEXT_TRIGGER
     /\ FREE_TEXT_TRIGGER \notin OutPatterns(H.S) =>
          /\ state = H.S
          /\ user.state = H.S
          /\ hop[Main] = 0
          /\ db = H.db0
          /\ UserState(db, U) = H.S
          /\ pc[Main] \in {"fire", "raised"}

\* "zzz" in state "start", which has no free-text transition.
C3_Witness ==
  /\ pc[Main] = "raised"
  /\ Matching = {}
  /\ H.S = "start"
  /\ H.signal = <<"zzz">>
  /\ FREE_TEXT_TRIGGER \notin OutPatterns(H.S)

(***************************************************************************)
(* C4.  A no-match dispatch (no outgoing pattern matches, the state has no *)
(* free-text transition) is not an error: the hop completes, the state is  *)
(* unchanged and exactly one save rewrites it.                             *)
(* The code does not behave so: model.trigger raises for an event that has *)
(* no transition from the current state, and the save is never reached.    *)
(***************************************************************************)
C4_NoMatchAbsorbed ==
  (HopEnded /\ Matching = {} /\ FREE_TEXT_TRIGGER \notin OutPatterns(H.S)) =>
     /\ pc[Main] \in {"chain", "done"}
     /\ H.err = "none"
     /\ H.saves = H.hopSaves + 1
     /\ state = H.S
     /\ UserState(db, U) = H.S

(***************************************************************************)
(* C5.  With pass-through transitions A -> B and B -> C and none from C,   *)
(* one inbound event for a user whose stored state is A ends with the      *)
(* stored state C.                                                         *)
(* The code does so only for an event whose signal fires something from A: *)
(* any other event resolves to the free-text trigger, which raises (C4),   *)
(* and the chain check is never reached.                                   *)
(***************************************************************************)
C5_PassThroughChain ==
  ( /\ Ended(Main)
    /\ H.S # None
    /\ Persisted(H.db0, U) = "A"
    /\ Dests("A", PASSING_TRIGGER) = {"B"}
    /\ Dests("B", PASSING_TRIGGER) = {"C"}
    /\ PASSING_TRIGGER \notin OutPatterns("C") ) =>
     /\ pc[Main] = "done"
     /\ Persisted(db, U) = "C"

(***************************************************************************)
(* C6.  The scenario start --"hello"--> await_photo --photo--> done: a     *)
(* user whose stored state is "start" and who sends the text "hello" has   *)
(* the stored state "await_photo" when the dispatch ends; a user whose     *)
(* stored state is "await_photo" and who sends a photo has the stored      *)
(* state "done" when the dispatch ends.  ("start" is the registered state  *)
(* of that name, not the start state of a new user, "__start__".)          *)
(***************************************************************************)
C6_Scenario ==
  /\ ( /\ Ended(Main)
       /\ Persisted(H.db0, U) = "start"
       /\ H.kind = "message"
       /\ H.event = <<"hello">> ) =>
        /\ pc[Main] = "done"
        /\ Persisted(db, U) = "await_photo"
  /\ ( /\ Ended(Main)
       /\ Persisted(H.db0, U) = "await_photo"
       /\ H.kind = "photo" ) =>
        /\ pc[Main] = "done"
        /\ Persisted(db, U) = "done"

\* A user who was brought to "await_photo" has sent a photo.
C6_Witness ==
  /\ pc[Main] = "done"
  /\ H.kind = "photo"
  /\ Persisted(H.db0, U) = "await_photo"
  /\ Persisted(db, U) = "done"

(***************************************************************************)
(* C7.  Every hop that resolves a trigger saves the user with the runtime  *)
(* state the fire step left, also when no transition fired because the     *)
(* guards blocked it or because no transition applied.                     *)
(* The code saves after a blocked transition, but not when no transition   *)
(* applies: model.trigger raises then (C4) and line 92 is not reached.     *)
(***************************************************************************)
C7_EveryHopSaves ==
  (HopEnded /\ Cardinality(Matching) <= 1) =>
     /\ H.saves = H.hopSaves + 1
     /\ Persisted(db, U) = state

(***************************************************************************)
(* C8.  In a dispatch in which no transition has fired, every record the   *)
(* dispatch saves has the state the load step (lines 59-62: get_user and   *)
(* the start-state default) gave the record, also for a user first seen in *)
(* this dispatch; a row that existed before is saved unchanged.            *)
(***************************************************************************)
C8_RoundTrip ==
  (pc[Main] # "idle" /\ H.fires = 0 /\ H.saves > 0) =>
     /\ Persisted(db, U) = H.loaded
     /\ U \in DOMAIN H.db0 => db[U] = H.db0[U]

\* A first-seen user whose free-text transition was blocked by its guard.
C8_Witness ==
  /\ Ended(Main)
  /\ H.fires = 0
  /\ H.saves = 1
  /\ U \notin DOMAIN H.db0
  /\ H.outcome = "blocked"
  /\ Persisted(db, U) = START_STATE_NAME

(***************************************************************************)
(* C9.  The load step of the first hop for a user without a row yields a   *)
(* record with the user's id, the start state and the profile fields of    *)
(* the update's user; the hop binds the Machine to the start state and     *)
(* resolves the signal against the patterns outgoing from it; the row the  *)
(* dispatch then stores carries that profile.  (Load is read as lines      *)
(* 59-62 of __handler: get_user leaves the state of a new record None and  *)
(* line 62 puts the start state in its place.)                             *)
(* The code does not behave so with the original DbAdapter: get_user       *)
(* raises and no record is loaded.                                         *)
(***************************************************************************)
FirstSeen == pc[Main] # "idle" /\ U \notin DOMAIN H.db0

SameProfile(r, profile) ==
  /\ r.first_name = profile.first_name
  /\ r.last_name = profile.last_name
  /\ r.name = profile.name
  /\ r.username = profile.username

C9_Bootstrap ==
  /\ (FirstSeen /\ hop[Main] = 0 /\ pc[Main] \in {"bind", "resolve", "fire"}) =>
        /\ user.id = U
        /\ user.state = START_STATE_NAME
        /\ SameProfile(user, update[Main].profile)
  /\ (FirstSeen /\ hop[Main] = 0 /\ pc[Main] \notin {"load", "bind"}) =>
        /\ H.S = START_STATE_NAME
        /\ pc[Main] # "resolve" => H.matched = Matching
  /\ (FirstSeen /\ U \in DOMAIN db) =>
        /\ db[U].id = U
        /\ SameProfile(db[U], update[Main].profile)

\* Lemma: with an inherited adapter that supplies the session factory and
\* a user_class without constructor arguments, the bootstrap is as stated.
BootstrapWithInheritedAdapter == adapter = "inherited" => C9_Bootstrap

(***************************************************************************)
(* C10.  Dispatches running one at a time: every hop resolves and fires    *)
(* from the state stored for the user being dispatched (the start state    *)
(* for a user without a row), whatever state the previous dispatch left in *)
(* the Machine; and a dispatch leaves the rows of all other users as they  *)
(* were when it began.                                                     *)
(***************************************************************************)
C10_Isolation ==
  /\ pc[Main] \in {"resolve", "fire"} =>
        /\ state = UserState(db, U)
        /\ H.S = state
  /\ pc[Main] # "idle" =>
        \A v \in Users \ {U} :
           /\ v \in DOMAIN db <=> v \in DOMAIN H.db0
           /\ v \in DOMAIN db => db[v] = H.db0[v]

\* The Machine was left in another state by the previous dispatch, and
\* another user has a row.
C10_Witness ==
  /\ pc[Main] = "fire"
  /\ H.rebound
  /\ state = UserState(db, U)
  /\ \E v \in Users \ {U} : v \in DOMAIN db /\ db[v].state # state

(***************************************************************************)
(* C11.  Two dispatches for two different users whose steps interleave on  *)
(* the one Constructor (SpecConc): a user's row can come to hold a state   *)
(* that the user's dispatch, run alone from the state stored for the user, *)
(* could not have saved (C11_Witness); and such a row appears only when    *)
(* one dispatch began while the other was in flight.                       *)
(***************************************************************************)
\* The states one hop run alone from state s with signal sig can leave.
SoloHop(s, sig) ==
  LET matched == MatchedTriggers(machine, s, sig)
  IN  IF s \notin StateNames(machine) \/ Ambiguous(matched) THEN {}
      ELSE { r.state : r \in { x \in { Trigger(machine, ResolveTrigger(matched), s, g) :
                                          g \in [GuardNames -> BOOLEAN] } :
                                 x.outcome \in {"fired", "blocked"} } }

RECURSIVE SoloChain(_, _)
SoloChain(S, n) ==
  IF n = 0 THEN S
  ELSE SoloChain(S \cup UNION { SoloHop(st, PASSING_TRIGGER) :
                                  st \in { x \in S : Chains(machine, x) } }, n - 1)

\* The states a dispatch of signal sig, run alone for a user stored in s0,
\* can save in the user's row.
SoloSaved(s0, sig) == SoloChain(SoloHop(s0, sig), MaxHops + 1)

\* The row of the user of thread t's update holds a state that is neither
\* the one it held when the update arrived nor one the dispatch alone saves.
Anomalous(t) ==
  /\ pc[t] # "idle"
  /\ Persisted(db, update[t].id) # Persisted(hist[t].db0, update[t].id)
  /\ Persisted(db, update[t].id) \notin
        SoloSaved(UserState(hist[t].db0, update[t].id), hist[t].event)

C11_RaceNeedsOverlap ==
  \A t \in Threads : Anomalous(t) => \E s \in Threads : hist[s].conc

\* User 2, not seen before, sent "hello" and is stored in "await_photo": the
\* other dispatch moved the shared Machine to "start" in between.
C11_Witness ==
  /\ update[1].id # update[2].id
  /\ Anomalous(2)
  /\ 2 \notin DOMAIN hist[2].db0
  /\ hist[2].event = <<"hello">>
  /\ Persisted(db, 2) = "await_photo"

(***************************************************************************)
(* The pass-through graph of the Machine: an edge for every transition     *)
(* declared on the pass-through trigger.                                   *)
(***************************************************************************)
PassSucc(S) ==
  { machine.transitions[i].dest :
      i \in { j \in 1..Len(machine.transitions) :
                /\ machine.transitions[j].trigger = PASSING_TRIGGER
                /\ machine.transitions[j].source \in S } }

RECURSIVE PassReach(_, _)
\* The states reachable from S over at most n pass-through edges.
PassReach(S, n) == IF n = 0 THEN S ELSE PassReach(S \cup PassSucc(S), n - 1)

\* s lies on a pass-through cycle.
OnCycle(s) == s \in PassReach(PassSucc({s}), Cardinality(StateNames(machine)))

Acyclic == \A s \in StateNames(machine) : ~OnCycle(s)

\* A chained hop of the dispatch is bound to the state an earlier chained
\* hop was bound to (H.path[1] is the state of the hop of the inbound signal).
Revisits(s) ==
  \E i, j \in 2..Len(H.path) : i < j /\ H.path[i] = s /\ H.path[j] = s

(***************************************************************************)
(* C12.  A dispatch that enters a pass-through cycle is aborted at once:   *)
(* no chained hop of it is bound to a state of the cycle that an earlier   *)
(* chained hop of the same dispatch was already bound to.  (Stated for     *)
(* inbound signals other than the names of the Machine's automatic         *)
(* "to_<state>" events, so that the cycle is entered by a declared         *)
(* transition.)                                                            *)
(* The code has no such check: the handler recurses round the cycle,       *)
(* firing and saving in every hop, until the interpreter's recursion limit *)
(* ends it.                                                                *)
(***************************************************************************)
DeclaredEntry == \A d \in StateNames(machine) : ~IsPrefix(AutoTrigger(d), H.event)

C12_CycleFailsFast ==
  DeclaredEntry => \A s \in StateNames(machine) : OnCycle(s) => ~Revisits(s)

(***************************************************************************)
(* C13.  When a dispatch has returned normally, the state stored for its   *)
(* user is the runtime state and no pass-through transition leaves it.     *)
(***************************************************************************)
C13_RestsOutsidePassThrough ==
  pc[Main] = "done" =>
     /\ Persisted(db, U) = state
     /\ PASSING_TRIGGER \notin OutPatterns(Persisted(db, U))

\* A dispatch has chained A -> B -> C and returned with the user in "C".
C13_Witness ==
  /\ pc[Main] = "done"
  /\ hop[Main] >= 2
  /\ H.path[Len(H.path)] = "B"
  /\ PASSING_TRIGGER \in OutPatterns("B")
  /\ Persisted(db, U) = "C"

(***************************************************************************)
(* C14.  When the pass-through transitions of the Machine form no cycle,   *)
(* a dispatch chain ends of itself: no two of its chained hops are bound   *)
(* to the same state, so it has no more hops than there are states, and it *)
(* does not run into the recursion limit - whatever the guards return.     *)
(* The code does not behave so: a pass-through transition whose guards     *)
(* block it leaves the state as it is, line 95 finds the pass-through      *)
(* trigger again and the hop is repeated.                                  *)
(***************************************************************************)
C14_AcyclicChainEnds ==
  (machine.built /\ Acyclic /\ DeclaredEntry) =>
     /\ \A s \in StateNames(machine) : ~Revisits(s)
     /\ H.err # "RecursionError"

(***************************************************************************)
(* C15.  When a chained hop ends the dispatch with an exception, the       *)
(* user's row holds the runtime state the last completed hop reached: each *)
(* hop before it has saved, and nothing is restored.  When the hop aborts  *)
(* before it saves (its signal is ambiguous, or model.trigger raises),     *)
(* that state is the one the aborted hop was bound to.                     *)
(***************************************************************************)
C15_NoRollback ==
  (pc[Main] = "raised" /\ hop[Main] >= 1) =>
     /\ Persisted(db, U) = state
     /\ H.saves >= hop[Main]
     /\ H.err # "RecursionError" =>
          /\ state = H.S
          /\ H.saves = hop[Main]
          /\ H.saves = H.hopSaves

\* A new user's chain __start__ -> P -> Q -> R is aborted in "R", where the
\* pass-through signal matches two patterns; the row holds "R".
C15_Witness ==
  /\ pc[Main] = "raised"
  /\ H.err = "ValueError: more than one matched trigger"
  /\ hop[Main] = 3
  /\ H.signal = PASSING_TRIGGER
  /\ H.S = "R"
  /\ U \notin DOMAIN H.db0
  /\ Persisted(db, U) = "R"

(***************************************************************************)
(* C16.  A transition on the photo trigger fires only in the hop of a      *)
(* photo update, one on the location trigger only in the hop of a location *)
(* update, one on the pass-through trigger only in a chained hop.          *)
(* The code does not keep the reserved names apart from what users send:   *)
(* __msg_handler passes the message text on as the signal, and a text that *)
(* spells a reserved name matches the pattern of that name.                *)
(***************************************************************************)
C16_SentinelsReserved ==
  (pc[Main] # "idle" /\ H.outcome = "fired") =>
     /\ trigger[Main] = PHOTO_TRIGGER => (H.kind = "photo" /\ hop[Main] = 0)
     /\ trigger[Main] = LOCATION_TRIGGER => (H.kind = "location" /\ hop[Main] = 0)
     /\ trigger[Main] = PASSING_TRIGGER => hop[Main] >= 1

(***************************************************************************)
(* C17.  In every completed hop the state stored for the user is the state *)
(* the hop was bound to, or the destination of a transition registered     *)
(* with add_transition whose source is that state and whose pattern        *)
(* matches the hop's signal (or is the free-text trigger, when no pattern  *)
(* matches it); and every stored state is a registered state or the start  *)
(* state.                                                                  *)
(* The code lets the stored state change along transitions nobody          *)
(* registered: the Machine is built with the library's default             *)
(* auto_transitions, which adds an event "to_<state>" from every state to  *)
(* every state, and get_triggers offers these events to the matching.      *)
(***************************************************************************)
C17_OnlyDeclaredTransitions ==
  /\ (pc[Main] \in {"chain", "done"} /\ Persisted(db, U) # H.S) =>
        \E i \in 1..Len(transitions) :
           /\ transitions[i].source = H.S
           /\ \/ IsPrefix(transitions[i].trigger, H.signal)
              \/ Matching = {} /\ transitions[i].trigger = FREE_TEXT_TRIGGER
           /\ transitions[i].dest = Persisted(db, U)
  /\ reg >= BuildLen =>
        \A u \in DOMAIN db :
           db[u].state \in { states[i].name : i \in 1..Len(states) }
                             \cup {START_STATE_NAME}

(***************************************************************************)
(* C18.  The Machine is built once, in the bind step of the first hop that *)
(* gets there, from the states and transitions registered by then (plus    *)
(* the initial state, when it is not registered), and is never built or    *)
(* changed again; a transition registered later is not in it: its pattern  *)
(* is never among the matched triggers of a hop bound to its source, and   *)
(* no hop fires it.                                                        *)
(***************************************************************************)
\* The transitions registered after the Machine was built.
Late == (Len(machine.transitions) + 1)..Len(transitions)

LateInert ==
  \A i \in Late :
     (pc[Main] \notin {"idle", "load", "bind"} /\ H.S = transitions[i].source) =>
        /\ transitions[i].trigger \notin H.matched
        /\ ~(H.outcome = "fired" /\ trigger[Main] = transitions[i].trigger)

C18_BuiltOnce ==
  /\ [](pc[Main] \in {"resolve", "fire", "save", "chain"} => machine.built)
  /\ [](machine.built => LateInert)
  /\ [][ /\ machine.built => machine' = machine
         /\ (~machine.built /\ machine'.built) =>
               /\ pc[Main] = "bind"
               /\ machine'.transitions = transitions
               /\ StateNames(machine') =
                     { states[i].name : i \in 1..Len(states) } \cup {user.state} ]_vars

\* The transition C -> A on the pass-through trigger was registered after
\* the Machine was built; a later dispatch chains A -> B -> C and returns
\* with the user in "C".
C18_Witness ==
  /\ machine.built
  /\ Late # {}
  /\ \E i \in Late : transitions[i].source = "C" /\ transitions[i].trigger = PASSING_TRIGGER
  /\ pc[Main] = "done"
  /\ hop[Main] >= 1
  /\ H.db0 # <<>>
  /\ state = "C"

(***************************************************************************)
(* C19.  The order of the callbacks of a transition that fires.  As        *)
(* amended (C19_CallbackOrder): after the prepare callbacks and the guard  *)
(* evaluation the transition's before callbacks run first, then the source *)
(* state's on_exit callbacks, then the state changes to the destination,   *)
(* then the destination state's on_enter callbacks run, and the after      *)
(* callbacks run last; when the guards block the transition none of        *)
(* before, on_exit, on_enter, after runs and the state does not change.    *)
(* As the claim has it (C19_OrderAsClaimed): on_exit, before, the state    *)
(* change, after, on_enter.                                                *)
(***************************************************************************)
\* What the current hop has appended to the log.
HopLog == SubSeq(H.log, H.hopLog + 1, Len(H.log))

\* Every entry of kind k1 in the hop's log comes before every one of kind k2.
Precedes(k1, k2) ==
  \A i, j \in 1..Len(HopLog) :
     (HopLog[i][1] = k1 /\ HopLog[j][1] = k2) => i < j

Ran(k) == \E i \in 1..Len(HopLog) : HopLog[i][1] = k

\* The hop has fired, or has been blocked, and has not yet recursed.
AfterFire == pc[Main] \in {"save", "chain", "done"}

BlockedRunsNothing ==
  (AfterFire /\ H.outcome = "blocked") =>
     /\ \A k \in {"before", "on_exit", "set_state", "on_enter", "after"} : ~Ran(k)
     /\ state = H.S

C19_OrderAsClaimed ==
  /\ (AfterFire /\ H.outcome = "fired") =>
        /\ Precedes("prepare", "on_exit") /\ Precedes("guard", "on_exit")
        /\ Precedes("on_exit", "before")
        /\ Precedes("before", "set_state")
        /\ Precedes("set_state", "after")
        /\ Precedes("after", "on_enter")
  /\ BlockedRunsNothing

C19_CallbackOrder ==
  /\ (AfterFire /\ H.outcome = "fired") =>
        /\ Precedes("prepare", "guard")
        /\ Precedes("prepare", "before") /\ Precedes("guard", "before")
        /\ Precedes("before", "on_exit")
        /\ Precedes("on_exit", "set_state")
        /\ Precedes("set_state", "on_enter")
        /\ Precedes("on_enter", "after")
        /\ Ran("set_state")
        /\ HopLog[CHOOSE i \in 1..Len(HopLog) : HopLog[i][1] = "set_state"][2] = state
  /\ BlockedRunsNothing

\* "hello" has fired from "start": prepare, before, on_exit of "start",
\* on_enter of "await_photo" and after have all run.
C19_Witness ==
  /\ pc[Main] = "save"
  /\ H.outcome = "fired"
  /\ H.S = "start"
  /\ state = "await_photo"
  /\ HopLog = << <<"prepare", "prep">>, <<"before", "bef">>, <<"on_exit", "bye">>,
                 <<"set_state", "await_photo">>, <<"on_enter", "ask_photo">>,
                 <<"after", "aft">> >>

====
